---- MODULE Spec2Model ----
(***************************************************************************)
(* A model of src/app.js, the AI risk assessment quiz.  The file holds two *)
(* definitions of class RiskAssessmentApp: the first at lines 4-689, the   *)
(* second ("updated application logic") at lines 698-1514.  The variable   *)
(* ver says which one is running.  Strings of the CSV tables that the code *)
(* searches or splits are modelled by their underscore-separated tokens.   *)
(***************************************************************************)
EXTENDS Integers, Sequences, FiniteSets, TLC

(***************************************************************************)
(* Bounds of the model.                                                    *)
(***************************************************************************)
\* largest |modifier| handed to applySeverityModifier in SpecModifier
MaxModifier == 6
\* largest |delta| a context table cell holds
MaxDelta == 2
\* tool-card clicks per behaviour of Spec
MaxClicks == 3
\* new-assessment clicks per behaviour of Spec
MaxResets == 1

(***************************************************************************)
(* Program constants.                                                      *)
(***************************************************************************)
\* severityOrder: the four levels, ordinal = position - 1
severityLevels == <<"LOW", "MEDIUM", "HIGH", "CRITICAL">>
Severity == {severityLevels[i] : i \in 1..Len(severityLevels)}
\* the highest ordinal, the 3 of Math.min(3, ...)
MaxIndex == 3

\* Object.keys(this.harmCategories), in order.  Two of the six categories
\* are modelled: every loop of the code treats the categories alike, and the
\* rule conditions name only Bias.
harmCategories == <<"Bias", "Privacy">>
Categories == {harmCategories[i] : i \in 1..Len(harmCategories)}

\* the option letters of parseOptions
OptionLetters == <<"A", "B", "C", "D">>
Letters == {OptionLetters[i] : i \in 1..Len(OptionLetters)}

\* values of card.dataset.tool; NoTool is the null of state.selectedTool
NoTool == "null"
ToolKeys == {"plagiarism_detection", "llm_tutors"}
\* a field that a CSV row does not have
Undefined == "undefined"

toolTypeMap(tool) ==
    CASE tool = "plagiarism_detection" -> "Plagiarism_Detection"
      [] tool = "llm_tutors" -> "LLM_Tutors"
      [] OTHER -> Undefined

(***************************************************************************)
(* Strings the code searches: their tokens.                                *)
(***************************************************************************)
\* toolType.toLowerCase().replace('_', '_'), as tokens
LowerTokens(s) ==
    CASE s = "Plagiarism_Detection" -> <<"plagiarism", "detection">>
      [] s = "LLM_Tutors" -> <<"llm", "tutors">>
      [] s = "Both_Tools" -> <<"both", "tools">>
      [] s = "Detection" -> <<"detection">>
      [] s = "plagiarism_detection" -> <<"plagiarism", "detection">>
      [] s = "llm_tutors" -> <<"llm", "tutors">>
      [] OTHER -> <<>>

\* haystack.includes(needle) on token sequences
Includes(hay, needle) ==
    \E k \in 0..(Len(hay) - Len(needle)) :
        \A j \in 1..Len(needle) : hay[k + j] = needle[j]

(***************************************************************************)
(* Severity arithmetic.                                                    *)
(***************************************************************************)
\* severityOrder.indexOf(severity): -1 when the string is no level
IndexOf(severity) ==
    IF severity \in Severity
    THEN (CHOOSE i \in 1..Len(severityLevels) : severityLevels[i] = severity) - 1
    ELSE -1

Max2(a, b) == IF a >= b THEN a ELSE b
Min2(a, b) == IF a <= b THEN a ELSE b

\* severityOrder[new] > severityOrder[current]; a comparison with undefined is false
isSeverityHigher(newSeverity, currentSeverity) ==
    /\ newSeverity \in Severity
    /\ currentSeverity \in Severity
    /\ IndexOf(newSeverity) > IndexOf(currentSeverity)

\* mutants of applySeverityModifier
applySeverityModifierNoCap(severity, modifier) ==
    LET newIndex == Max2(0, IndexOf(severity) + modifier)
    IN  IF newIndex <= MaxIndex THEN severityLevels[newIndex + 1] ELSE Undefined

applySeverityModifierAbsolute(severity, modifier) ==
    severityLevels[Max2(0, Min2(MaxIndex, modifier)) + 1]

applySeverityModifier(severity, modifier) ==
    LET currentIndex == IndexOf(severity)
        newIndex == Max2(0, Min2(MaxIndex, currentIndex + modifier))
    IN  severityLevels[newIndex + 1]

\* parseInt(cell) || 0 for the cells the tables hold
DeltaStrings == {ToString(i) : i \in (-MaxDelta)..MaxDelta} \cup {"", "n/a"}
parseIntOr0(cell) ==
    IF \E i \in (-MaxDelta)..MaxDelta : ToString(i) = cell
    THEN CHOOSE i \in (-MaxDelta)..MaxDelta : ToString(i) = cell
    ELSE 0

(***************************************************************************)
(* The risk profile and the steps of calculateRiskProfile.  A step is an   *)
(* operator from profile to profile; the table rows and the state record   *)
(* it reads are parameters.                                                *)
(***************************************************************************)
\* the profile calculateRiskProfile starts from.  risks counts the entries of
\* the first definition's risks array; compoundWarnings <<>> is the absent field.
InitialProfile(selectedTool) ==
    [ toolType |-> selectedTool,
      severity |-> [c \in Categories |-> "LOW"],
      hasRisk |-> [c \in Categories |-> FALSE],
      risks |-> [c \in Categories |-> 0],
      overallRisk |-> "LOW",
      activeRisks |-> <<>>,
      compoundWarnings |-> <<>> ]

\* the saved answer of question index i: a sequence of letters, <<>> when the key is absent
AnswerOf(answers, i) == IF i \in DOMAIN answers THEN answers[i] ELSE <<>>

\* mutant of SeverityCell: a missing severity counts as MEDIUM
SeverityCellMedium(question, answer) ==
    IF question.Severity[answer] = "" THEN "MEDIUM" ELSE question.Severity[answer]

\* question[severityColumn] || 'LOW'
SeverityCell(question, answer) ==
    IF question.Severity[answer] = "" THEN "LOW" ELSE question.Severity[answer]

\* second definition: question[riskColumn] === 'TRUE' || === 'true'
Flagged2(question, answer, c) == question.Flag[answer][c] = "TRUE"
\* first definition: also === '1'
Flagged1(question, answer, c) == question.Flag[answer][c] \in {"TRUE", "1"}

\* mutant of processAnswerRisks: the severity of the last flagged answer wins
processAnswerRisksOverwrite(question, answer, profile) ==
    [profile EXCEPT
        !.severity = [c \in Categories |->
            IF Flagged2(question, answer, c) /\ SeverityCell(question, answer) \in Severity
            THEN SeverityCell(question, answer)
            ELSE profile.severity[c]],
        !.hasRisk = [c \in Categories |->
            profile.hasRisk[c] \/ Flagged2(question, answer, c)]]

processAnswerRisks(question, answer, profile) ==
    [profile EXCEPT
        !.severity = [c \in Categories |->
            IF /\ Flagged2(question, answer, c)
               /\ isSeverityHigher(SeverityCell(question, answer), profile.severity[c])
            THEN SeverityCell(question, answer)
            ELSE profile.severity[c]],
        !.hasRisk = [c \in Categories |->
            profile.hasRisk[c] \/ Flagged2(question, answer, c)]]

processAnswerHarms(question, answer, profile) ==
    [profile EXCEPT
        !.severity = [c \in Categories |->
            IF /\ Flagged1(question, answer, c)
               /\ isSeverityHigher(SeverityCell(question, answer), profile.severity[c])
            THEN SeverityCell(question, answer)
            ELSE profile.severity[c]],
        !.risks = [c \in Categories |->
            IF Flagged1(question, answer, c)
            THEN profile.risks[c] + 1
            ELSE profile.risks[c]]]

\* answers.forEach(answer => process...(question, answer, profile))
RECURSIVE processAnswers(_, _, _, _)
processAnswers(v, question, answers, profile) ==
    IF answers = <<>> THEN profile
    ELSE processAnswers(v, question, Tail(answers),
            IF v = 1 THEN processAnswerHarms(question, Head(answers), profile)
            ELSE processAnswerRisks(question, Head(answers), profile))

\* mutant of applyContextModifiers2: hasRisk is not tested
applyContextModifiers2AnyCategory(question, answer, profile) ==
    [profile EXCEPT
        !.severity = [c \in Categories |->
            LET modifier == parseIntOr0(question.Modifier[answer][c])
            IN  IF modifier # 0
                THEN applySeverityModifier(profile.severity[c], modifier)
                ELSE profile.severity[c]]]

\* second definition: the delta of column `${answer}_${category}_Modifier`
applyContextModifiers2(question, answer, profile) ==
    [profile EXCEPT
        !.severity = [c \in Categories |->
            LET modifier == parseIntOr0(question.Modifier[answer][c])
            IN  IF modifier # 0 /\ profile.hasRisk[c]
                THEN applySeverityModifier(profile.severity[c], modifier)
                ELSE profile.severity[c]]]

\* mutant of applyContextModifiers1: the new severity is stored without comparison
applyContextModifiers1Lowering(question, answer, profile) ==
    [profile EXCEPT
        !.severity = [c \in Categories |->
            LET modifier == parseIntOr0(question.Age_Modifier[answer])
            IN  IF question.Affects[answer][c] = "TRUE" /\ modifier # 0
                THEN applySeverityModifier(profile.severity[c], modifier)
                ELSE profile.severity[c]]]

\* first definition: the delta of column `${answer}_Age_Modifier` for every
\* category whose `${answer}_Affects_${category}` is TRUE, and only upwards
applyContextModifiers1(question, answer, profile) ==
    [profile EXCEPT
        !.severity = [c \in Categories |->
            LET modifier == parseIntOr0(question.Age_Modifier[answer])
                newSeverity == applySeverityModifier(profile.severity[c], modifier)
            IN  IF /\ question.Affects[answer][c] = "TRUE"
                   /\ modifier # 0
                   /\ isSeverityHigher(newSeverity, profile.severity[c])
                THEN newSeverity
                ELSE profile.severity[c]]]

RECURSIVE applyContextAnswers(_, _, _, _)
applyContextAnswers(v, question, answers, profile) ==
    IF answers = <<>> THEN profile
    ELSE applyContextAnswers(v, question, Tail(answers),
            IF v = 1 THEN applyContextModifiers1(question, Head(answers), profile)
            ELSE applyContextModifiers2(question, Head(answers), profile))

(***************************************************************************)
(* Compound rules (second definition, lines 1098-1237).  A rule row is     *)
(*   Rule_ID, Tool_Type (a string, or Undefined),                          *)
(*   Trigger_Conditions (the set of condition texts it contains),          *)
(*   Escalation_Effect (its tokens, 'Escalate_Privacy_to_HIGH' being       *)
(*   <<"Escalate","Privacy","to","HIGH">>), Special_Warning ("" if none),  *)
(*   Risk_Combination (the set of words it contains).                      *)
(***************************************************************************)
\* Object.values(answers).includes(letter): the second definition saves one letter per key
AnswersInclude(answers, letter) ==
    \E i \in DOMAIN answers : answers[i] = <<letter>>

checkVulnerablePopulation(st) == AnswersInclude(st.contextAnswers, "D")
checkNoAppeals(st) == AnswersInclude(st.toolAnswers, "A")
checkAutomatedIntegration(st) == AnswersInclude(st.toolAnswers, "D")

\* the categories counted by Count_<level>_Risks>=2
CountRisks(profile, level) ==
    Cardinality({c \in Categories : profile.hasRisk[c] /\ profile.severity[c] = level})

\* lines 1109-1114 are outside the try block: a TypeError there leaves ruleApplies
ruleAppliesThrows(rule, st) ==
    /\ rule.Tool_Type # "Both_Tools"
    /\ (st.selectedTool = NoTool \/ rule.Tool_Type = Undefined)

\* the tool-type test of lines 1112-1114
ToolTypeMatches(rule, st) ==
    \/ rule.Tool_Type = "Both_Tools"
    \/ Includes(LowerTokens(st.selectedTool), LowerTokens(rule.Tool_Type))

\* mutant of ruleApplies1: the placeholder answers true
ruleApplies1True(rule, profile, st) == TRUE

\* the first definition's placeholder (line 438)
ruleApplies1(rule, profile, st) == FALSE

ruleApplies2(rule, profile, st) ==
    LET conditions == rule.Trigger_Conditions
    IN  IF ~ToolTypeMatches(rule, st) THEN FALSE
        ELSE IF "Bias=HIGH" \in conditions /\ profile.severity["Bias"] = "HIGH"
        THEN IF "Vulnerable_Population>=60%" \in conditions
             THEN checkVulnerablePopulation(st)
             ELSE TRUE
        ELSE IF "Bias=CRITICAL" \in conditions /\ profile.severity["Bias"] = "CRITICAL"
        THEN IF "No_Appeals=TRUE" \in conditions
             THEN checkNoAppeals(st)
             ELSE TRUE
        ELSE IF "Integration=Automated" \in conditions
        THEN checkAutomatedIntegration(st)
        ELSE IF "Count_CRITICAL_Risks>=2" \in conditions
        THEN CountRisks(profile, "CRITICAL") >= 2
        ELSE IF "Count_HIGH_Risks>=2" \in conditions
        THEN CountRisks(profile, "HIGH") >= 2
        ELSE FALSE

\* effect.includes('Escalate_') && effect.includes('_to_')
EffectIsSpecific(effect) ==
    /\ \E i \in 1..(Len(effect) - 1) : effect[i] = "Escalate"
    /\ \E i \in 2..(Len(effect) - 1) : effect[i] = "to"

\* effect.split('_to_'): the position of the first token "to" with text on both sides
FirstTo(effect) ==
    CHOOSE i \in 2..(Len(effect) - 1) :
        effect[i] = "to" /\ \A j \in 2..(i - 1) : effect[j] # "to"

\* parts[0].replace('Escalate_', ''): the category named; "" when it is not one word
CategoryPart(effect) ==
    LET parts0 == SubSeq(effect, 1, FirstTo(effect) - 1)
    IN  IF Len(parts0) = 2 /\ parts0[1] = "Escalate" THEN parts0[2]
        ELSE IF Len(parts0) = 1 THEN parts0[1]
        ELSE ""

\* parts[1]: the text after the first '_to_', up to the next one
NewSeverityPart(effect) ==
    LET rest == SubSeq(effect, FirstTo(effect) + 1, Len(effect))
    IN  IF Len(rest) = 1 \/ (Len(rest) > 2 /\ rest[2] = "to") THEN rest[1]
        ELSE "Unrecognised"

\* extractCategoryFromRule: the first category, in the order tested, that
\* Risk_Combination contains; "" is null
extractCategoryFromRule(rule) ==
    IF "Bias" \in rule.Risk_Combination THEN "Bias"
    ELSE IF "Privacy" \in rule.Risk_Combination THEN "Privacy"
    ELSE ""

\* the effect part of applyRule (lines 1162-1188)
applyEffect(rule, profile) ==
    LET effect == rule.Escalation_Effect
    IN  IF effect = <<"Escalate", "to", "CRITICAL">>
        THEN LET category == extractCategoryFromRule(rule)
             IN  IF category \in Categories
                 THEN [profile EXCEPT !.severity[category] = "CRITICAL",
                                      !.hasRisk[category] = TRUE]
                 ELSE profile
        ELSE IF EffectIsSpecific(effect)
        THEN IF CategoryPart(effect) \in Categories
             THEN [profile EXCEPT !.severity[CategoryPart(effect)] = NewSeverityPart(effect),
                                  !.hasRisk[CategoryPart(effect)] = TRUE]
             ELSE profile
        ELSE IF effect = <<"Escalate", "All", "to", "HIGH">>
        THEN [profile EXCEPT !.severity = [c \in Categories |->
                IF profile.hasRisk[c] /\ isSeverityHigher("HIGH", profile.severity[c])
                THEN "HIGH" ELSE profile.severity[c]]]
        ELSE profile

\* the Escalation_Effect of a rule row that has no such cell
NoEffect == <<Undefined>>

\* effect.includes (line 1169) is a TypeError when the cell is missing; the
\* catch of applyRule (1202-1204) ends the call
applyRuleThrows(rule) == rule.Escalation_Effect = NoEffect

\* applyRule: the effect, then the warning (lines 1190-1200), both inside one try
applyRule2(rule, profile) ==
    IF applyRuleThrows(rule) THEN profile
    ELSE
    LET p == applyEffect(rule, profile)
    IN  IF rule.Special_Warning # ""
        THEN [p EXCEPT !.compoundWarnings = Append(@,
                [ruleId |-> rule.Rule_ID, warning |-> rule.Special_Warning,
                 riskCombination |-> rule.Risk_Combination])]
        ELSE p

\* the first definition's applyRule has an empty body (lines 441-444)
applyRule1(rule, profile) == profile

ruleApplies(v, rule, profile, st) ==
    IF v = 1 THEN ruleApplies1(rule, profile, st) ELSE ruleApplies2(rule, profile, st)

applyRule(v, rule, profile) ==
    IF v = 1 THEN applyRule1(rule, profile) ELSE applyRule2(rule, profile)

(***************************************************************************)
(* Explanations and the overall risk.                                      *)
(***************************************************************************)
\* mutant of FindExplanation: the tool type of the row is not compared
FindExplanationAnyTool(explanations, category, severity, csvToolType) ==
    LET hits == {i \in 1..Len(explanations) :
                    /\ explanations[i].Risk_Category = category
                    /\ explanations[i].Severity_Level = severity}
    IN  IF hits = {} THEN 0 ELSE CHOOSE i \in hits : \A j \in hits : i <= j

\* this.data.riskExplanations.find(...): the index of the first match, 0 when none
FindExplanation(explanations, category, severity, csvToolType) ==
    LET hits == {i \in 1..Len(explanations) :
                    /\ explanations[i].Risk_Category = category
                    /\ explanations[i].Severity_Level = severity
                    /\ explanations[i].Tool_Type = csvToolType}
    IN  IF hits = {} THEN 0 ELSE CHOOSE i \in hits : \A j \in hits : i <= j

RECURSIVE addRiskExplanationsFrom(_, _, _, _)
addRiskExplanationsFrom(k, explanations, st, profile) ==
    IF k > Len(harmCategories) THEN profile
    ELSE LET category == harmCategories[k]
             found == FindExplanation(explanations, category,
                         profile.severity[category], toolTypeMap(st.selectedTool))
         IN  addRiskExplanationsFrom(k + 1, explanations, st,
                IF profile.hasRisk[category] /\ found # 0
                THEN [profile EXCEPT !.activeRisks = Append(@,
                        [category |-> category,
                         severity |-> profile.severity[category],
                         explanation |-> explanations[found]])]
                ELSE profile)

addRiskExplanations(explanations, st, profile) ==
    addRiskExplanationsFrom(1, explanations, st, profile)

\* the loop of determineOverallRisk over Object.values(profile.harmCategories)
RECURSIVE HighestFrom(_, _, _, _)
HighestFrom(k, v, profile, highestSeverity) ==
    IF k > Len(harmCategories) THEN highestSeverity
    ELSE LET c == harmCategories[k]
         IN  HighestFrom(k + 1, v, profile,
                IF /\ (v = 1 \/ profile.hasRisk[c])
                   /\ isSeverityHigher(profile.severity[c], highestSeverity)
                THEN profile.severity[c]
                ELSE highestSeverity)

\* mutant of determineOverallRisk: the last category's severity is returned
determineOverallRiskLast(v, profile) ==
    profile.severity[harmCategories[Len(harmCategories)]]

determineOverallRisk(v, profile) == HighestFrom(1, v, profile, "LOW")

(***************************************************************************)
(* The steps of calculateRiskProfile in order, as one operator: the        *)
(* profile a run returns for a state and tables, when no rule throws.      *)
(***************************************************************************)
\* the tool questions taken in the order given by the index sequence order
RECURSIVE FoldToolAnswers(_, _, _, _)
FoldToolAnswers(order, v, st, profile) ==
    IF order = <<>> THEN profile
    ELSE FoldToolAnswers(Tail(order), v, st,
            processAnswers(v, st.currentToolQuestions[Head(order)],
                AnswerOf(st.toolAnswers, Head(order)), profile))

\* the context questions taken in the order given by the index sequence order
RECURSIVE FoldContextAnswers(_, _, _, _, _)
FoldContextAnswers(order, v, questions, st, profile) ==
    IF order = <<>> THEN profile
    ELSE FoldContextAnswers(Tail(order), v, questions, st,
            applyContextAnswers(v, questions[Head(order)],
                AnswerOf(st.contextAnswers, Head(order)), profile))

RECURSIVE FoldRules(_, _, _, _, _)
FoldRules(k, v, rules, st, profile) ==
    IF k > Len(rules) THEN profile
    ELSE FoldRules(k + 1, v, rules, st,
            IF ruleApplies(v, rules[k], profile, st)
            THEN applyRule(v, rules[k], profile)
            ELSE profile)

TableOrder(questions) == [i \in 1..Len(questions) |-> i]
Reversed(seq) == [i \in 1..Len(seq) |-> seq[Len(seq) + 1 - i]]

calculateRiskProfile(v, tables, st) ==
    LET folded == FoldToolAnswers(TableOrder(st.currentToolQuestions), v, st,
                      InitialProfile(st.selectedTool))
        modified == FoldContextAnswers(TableOrder(tables.contextQuestions), v,
                        tables.contextQuestions, st, folded)
        escalated == FoldRules(1, v, tables.compoundRiskRules, st, modified)
        explained == IF v = 1 THEN escalated
                     ELSE addRiskExplanations(tables.riskExplanations, st, escalated)
    IN  [explained EXCEPT !.overallRisk = determineOverallRisk(v, explained)]

(***************************************************************************)
(* State.                                                                  *)
(***************************************************************************)
VARIABLES
    ver,      \* 1: the first definition of the class runs, 2: the second
    data,     \* this.data: the four loaded tables
    state,    \* this.state
    dom,      \* the page: the two forms, the error banner, the loading indicator, the results
    timers,   \* the pending setTimeout callbacks of selectTool, oldest first
    pc,       \* the position inside calculateAndShowResults, "idle" outside it
    idx,      \* the index of the forEach loop that pc names
    profile,  \* the profile calculateRiskProfile is building
    log,      \* history: the steps of the running calculation, in order
    snap,     \* history: the profile after each loop, the rules that applied
    hist,     \* history: clicks and resets, what the answers were saved from
    fn,       \* SpecModifier: the arguments and the result of applySeverityModifier
    boot      \* init(): the CSV files, the loads still pending, whether the catch block
              \* ran, whether setupEventListeners ran

vars == <<ver, data, state, dom, timers, pc, idx, profile, log, snap, hist, fn, boot>>

\* the section that shows the tool questions
ToolSection(v) == IF v = 1 THEN "usage-questions" ELSE "tool-questions"

\* the state object of the constructor and of resetAssessment
InitialState ==
    [ currentSection |-> "tool-selection",
      selectedTool |-> NoTool,
      toolAnswers |-> <<>>,
      contextAnswers |-> <<>>,
      currentToolQuestions |-> <<>> ]

\* this.data of the constructor
NoTables ==
    [ toolQuestions |-> <<>>, contextQuestions |-> <<>>,
      riskExplanations |-> <<>>, compoundRiskRules |-> <<>> ]

\* the keys of csvFiles
TableKeys == {"toolQuestions", "contextQuestions", "riskExplanations", "compoundRiskRules"}

\* init() has finished without an error: the files are loaded and stored,
\* the listeners are registered
Booted(tables) ==
    [files |-> tables, pending |-> {}, caught |-> FALSE, listeners |-> TRUE]

\* results-content when it is empty
NoPanels == [noRisks |-> FALSE, listed |-> <<>>, warnings |-> <<>>]

\* what displayResults puts into results-content besides the summary: the
\* 'No Significant Risks Identified' panel, the categories of the risk
\* analysis in order, the entries of the warnings panel (<<>>: no panel).
\* The first definition lists the categories that have an entry in risks.
displayResults(v, riskProfile) ==
    IF v = 1
    THEN [ noRisks |-> FALSE,
           listed |-> SelectSeq(harmCategories, LAMBDA c : riskProfile.risks[c] > 0),
           warnings |-> <<>> ]
    ELSE [ noRisks |-> Len(riskProfile.activeRisks) = 0,
           listed |-> [i \in 1..Len(riskProfile.activeRisks) |->
                          riskProfile.activeRisks[i].category],
           warnings |-> riskProfile.compoundWarnings ]

EmptyForm == [questions |-> <<>>, checked |-> <<>>]
InitialDom ==
    [ toolForm |-> EmptyForm, contextForm |-> EmptyForm,
      error |-> "", loading |-> FALSE, results |-> FALSE, panels |-> NoPanels ]

InitialSnap ==
    [ afterFold |-> InitialProfile(NoTool),
      afterContext |-> InitialProfile(NoTool),
      afterRules |-> InitialProfile(NoTool),
      applied |-> <<>> ]

InitialHist ==
    [ clicks |-> 0, resets |-> 0, clicksSinceReset |-> <<>>, savedFrom |-> <<>> ]

InitialFn == [severity |-> "LOW", modifier |-> 0, result |-> "", called |-> FALSE]

(***************************************************************************)
(* calculateAndShowResults, one action per loop iteration or step.         *)
(***************************************************************************)
\* the order of the steps of calculateRiskProfile and displayResults:
\* lines 321-363 and 1018-1065
PhaseOrderSwapped(v) ==
    IF v = 1 THEN <<"context", "fold", "rules", "overall", "display">>
    ELSE <<"context", "fold", "rules", "explain", "overall", "display">>

PhaseOrder(v) ==
    IF v = 1 THEN <<"fold", "context", "rules", "overall", "display">>
    ELSE <<"fold", "context", "rules", "explain", "overall", "display">>

FirstPhase(v) == PhaseOrder(v)[1]
NextPhase(v, p) ==
    LET i == CHOOSE k \in 1..Len(PhaseOrder(v)) : PhaseOrder(v)[k] = p
    IN  PhaseOrder(v)[i + 1]

\* the try block is entered: showLoading, a fresh profile
BeginCalculation ==
    /\ pc' = FirstPhase(ver)
    /\ idx' = 1
    /\ profile' = InitialProfile(state.selectedTool)
    /\ log' = <<>>
    /\ snap' = InitialSnap

\* a loop that takes the answers out of this.state.toolAnswers as it reads them
ProcessToolAnswerShifting ==
    /\ pc = "fold"
    /\ IF idx <= Len(state.currentToolQuestions)
       THEN /\ profile' = processAnswers(ver, state.currentToolQuestions[idx],
                              AnswerOf(state.toolAnswers, idx), profile)
            /\ state' = IF idx \in DOMAIN state.toolAnswers
                        THEN [state EXCEPT !.toolAnswers[idx] = <<>>]
                        ELSE state
            /\ idx' = idx + 1
            /\ log' = Append(log, "fold")
            /\ UNCHANGED <<pc, snap>>
       ELSE /\ pc' = NextPhase(ver, "fold")
            /\ idx' = 1
            /\ snap' = [snap EXCEPT !.afterFold = profile]
            /\ UNCHANGED <<profile, log, state>>
    /\ UNCHANGED <<ver, data, dom, timers, hist, fn, boot>>

ProcessToolAnswer ==
    /\ pc = "fold"
    /\ IF idx <= Len(state.currentToolQuestions)
       THEN /\ profile' = processAnswers(ver, state.currentToolQuestions[idx],
                              AnswerOf(state.toolAnswers, idx), profile)
            /\ idx' = idx + 1
            /\ log' = Append(log, "fold")
            /\ UNCHANGED <<pc, snap>>
       ELSE /\ pc' = NextPhase(ver, "fold")
            /\ idx' = 1
            /\ snap' = [snap EXCEPT !.afterFold = profile]
            /\ UNCHANGED <<profile, log>>
    /\ UNCHANGED <<ver, data, state, dom, timers, hist, fn, boot>>

ApplyContextAnswer ==
    /\ pc = "context"
    /\ IF idx <= Len(data.contextQuestions)
       THEN /\ profile' = applyContextAnswers(ver, data.contextQuestions[idx],
                              AnswerOf(state.contextAnswers, idx), profile)
            /\ idx' = idx + 1
            /\ log' = Append(log, "context")
            /\ UNCHANGED <<pc, snap>>
       ELSE /\ pc' = NextPhase(ver, "context")
            /\ idx' = 1
            /\ snap' = [snap EXCEPT !.afterContext = profile]
            /\ UNCHANGED <<profile, log>>
    /\ UNCHANGED <<ver, data, state, dom, timers, hist, fn, boot>>

\* mutant of ApplyCompoundRule: every rule is tested against the profile as
\* it was before the first rule
ApplyCompoundRuleBatch ==
    /\ pc = "rules"
    /\ IF idx <= Len(data.compoundRiskRules)
       THEN LET rule == data.compoundRiskRules[idx]
            IN  /\ IF ruleApplies(ver, rule, snap.afterContext, state)
                   THEN /\ profile' = applyRule(ver, rule, profile)
                        /\ snap' = [snap EXCEPT !.applied = Append(@, idx)]
                   ELSE UNCHANGED <<profile, snap>>
                /\ idx' = idx + 1
                /\ log' = Append(log, "rule")
                /\ UNCHANGED pc
       ELSE /\ pc' = NextPhase(ver, "rules")
            /\ idx' = 1
            /\ snap' = [snap EXCEPT !.afterRules = profile]
            /\ UNCHANGED <<profile, log>>
    /\ UNCHANGED <<ver, data, state, dom, timers, hist, fn, boot>>

ApplyCompoundRule ==
    /\ pc = "rules"
    /\ IF idx <= Len(data.compoundRiskRules)
       THEN LET rule == data.compoundRiskRules[idx]
            IN  IF ver = 2 /\ ruleAppliesThrows(rule, state)
                THEN /\ pc' = "catch"
                     /\ UNCHANGED <<idx, profile, log, snap>>
                ELSE /\ IF ruleApplies(ver, rule, profile, state)
                        THEN /\ profile' = applyRule(ver, rule, profile)
                             /\ snap' = [snap EXCEPT !.applied = Append(@, idx)]
                        ELSE UNCHANGED <<profile, snap>>
                     /\ idx' = idx + 1
                     /\ log' = Append(log, "rule")
                     /\ UNCHANGED pc
       ELSE /\ pc' = NextPhase(ver, "rules")
            /\ idx' = 1
            /\ snap' = [snap EXCEPT !.afterRules = profile]
            /\ UNCHANGED <<profile, log>>
    /\ UNCHANGED <<ver, data, state, dom, timers, hist, fn, boot>>

AddExplanations ==
    /\ pc = "explain"
    /\ profile' = addRiskExplanations(data.riskExplanations, state, profile)
    /\ pc' = NextPhase(ver, "explain")
    /\ log' = Append(log, "explain")
    /\ UNCHANGED <<ver, data, state, dom, timers, idx, snap, hist, fn, boot>>

DetermineOverall ==
    /\ pc = "overall"
    /\ profile' = [profile EXCEPT !.overallRisk = determineOverallRisk(ver, profile)]
    /\ pc' = NextPhase(ver, "overall")
    /\ log' = Append(log, "overall")
    /\ UNCHANGED <<ver, data, state, dom, timers, idx, snap, hist, fn, boot>>

\* displayResults(riskProfile); showSection('results'); finally hideLoading
DisplayResults ==
    /\ pc = "display"
    /\ dom' = [dom EXCEPT !.results = TRUE, !.loading = FALSE,
                          !.panels = displayResults(ver, profile)]
    /\ state' = [state EXCEPT !.currentSection = "results"]
    /\ pc' = "idle"
    /\ log' = Append(log, "display")
    /\ UNCHANGED <<ver, data, timers, idx, profile, snap, hist, fn, boot>>

\* a calculateAndShowResults without its catch: the results section is entered
CatchErrorEntersResults ==
    /\ pc = "catch"
    /\ dom' = [dom EXCEPT !.results = TRUE, !.loading = FALSE]
    /\ state' = [state EXCEPT !.currentSection = "results"]
    /\ pc' = "idle"
    /\ UNCHANGED <<ver, data, timers, idx, profile, log, snap, hist, fn, boot>>

\* the catch block: showError (which hides the loading indicator), then finally
CatchError ==
    /\ pc = "catch"
    /\ dom' = [dom EXCEPT !.error = "Error calculating risk assessment. Please try again.",
                          !.loading = FALSE]
    /\ pc' = "idle"
    /\ UNCHANGED <<ver, data, state, timers, idx, profile, log, snap, hist, fn, boot>>

CalcNext ==
    \/ ProcessToolAnswer
    \/ ApplyContextAnswer
    \/ ApplyCompoundRule
    \/ AddExplanations
    \/ DetermineOverall
    \/ DisplayResults
    \/ CatchError

(***************************************************************************)
(* Table rows.  A question row holds, for each option letter, the cells    *)
(* `${letter}_${category}` (Flag) and `${letter}_Severity`; a context row  *)
(* holds `${letter}_${category}_Modifier` (read by the second definition), *)
(* `${letter}_Affects_${category}` and `${letter}_Age_Modifier` (read by   *)
(* the first).  Answers is the set of letters with an Answer_<letter> text.*)
(***************************************************************************)
SevStrings == Severity \cup {"", "SEVERE"}
FlagStrings == {"TRUE", "FALSE", "1"}
RowLetters == {"A", "D"}

Cell(flag, severity) == [Flag |-> flag, Severity |-> severity]
AbsentCell == Cell([c \in Categories |-> ""], "")
\* the cell of the option that is offered next to the varied one
OtherCell == Cell([c \in Categories |-> "TRUE"], "HIGH")

\* a row with options A and D whose option `letter` has the cell `cell`
QuestionRow(toolType, letter, cell) ==
    LET cellOf == [l \in Letters |->
                    IF l = letter THEN cell
                    ELSE IF l \in RowLetters THEN OtherCell ELSE AbsentCell]
    IN  [ Tool_Type |-> toolType,
          Answers |-> RowLetters,
          response_type |-> "multiple",
          Flag |-> [l \in Letters |-> cellOf[l].Flag],
          Severity |-> [l \in Letters |-> cellOf[l].Severity] ]

NoDeltas == [c \in Categories |-> ""]
\* a context row with options A and D whose option `letter` has the given cells
ContextRow(letter, modifier, affects, ageModifier) ==
    [ Answers |-> RowLetters,
      response_type |-> "single",
      Modifier |-> [l \in Letters |-> IF l = letter THEN modifier ELSE NoDeltas],
      Affects |-> [l \in Letters |-> IF l = letter THEN affects ELSE NoDeltas],
      Age_Modifier |-> [l \in Letters |-> IF l = letter THEN ageModifier ELSE ""] ]

PlainContextRow == ContextRow("A", NoDeltas, NoDeltas, "")

Rule(id, toolType, conditions, effect, warning, combination) ==
    [ Rule_ID |-> id, Tool_Type |-> toolType, Trigger_Conditions |-> conditions,
      Escalation_Effect |-> effect, Special_Warning |-> warning,
      Risk_Combination |-> combination ]

\* a rule row without the Escalation_Effect cell
NoEffectRule ==
    Rule("R12", "Both_Tools", {"Bias=CRITICAL"}, NoEffect, "W12", {"Bias"})

\* a rule row with the effect 'Escalate_All_to_HIGH'
EscalateAllRule ==
    Rule("R3", "Plagiarism_Detection", {"Bias=CRITICAL", "No_Appeals=TRUE"},
         <<"Escalate", "All", "to", "HIGH">>, "W3", {"Bias"})

\* the rule rows the tables are drawn from
RuleRows ==
    { Rule("R1", "Both_Tools", {"Bias=HIGH"},
           <<"Escalate", "to", "CRITICAL">>, "W1", {"Bias"}),
      Rule("R2", "Both_Tools", {"Bias=HIGH", "Vulnerable_Population>=60%"},
           <<"Escalate", "Privacy", "to", "HIGH">>, "", {"Bias", "Privacy"}),
      EscalateAllRule,
      Rule("R4", "LLM_Tutors", {"Integration=Automated"},
           <<"Escalate", "to", "CRITICAL">>, "W4", {"Privacy"}),
      Rule("R5", "Both_Tools", {"Count_CRITICAL_Risks>=2"},
           <<"Escalate", "Bias", "to", "SEVERE">>, "W5", {}),
      Rule("R6", "Both_Tools", {"Count_HIGH_Risks>=2"},
           <<"Escalate", "Privacy", "to", "CRITICAL">>, "W6", {"Privacy"}),
      Rule("R7", "", {"Integration=Automated"},
           <<"Escalate", "Privacy", "to", "LOW">>, "", {}),
      Rule("R8", Undefined, {"Bias=HIGH"},
           <<"Escalate", "to", "CRITICAL">>, "W8", {"Bias"}),
      Rule("R9", "Detection", {"Bias=HIGH"}, <<"None">>, "W9", {}),
      Rule("R10", "Both_Tools", {"Bias=CRITICAL"},
           <<"Escalate", "Bias", "to", "HIGH", "to", "LOW">>, "", {"Bias"}),
      Rule("R11", "Both_Tools", {"Bias=CRITICAL", "Integration=Automated"},
           <<"Escalate", "to", "CRITICAL">>, "", {"Privacy"}) }

Explanation(category, severity, toolType) ==
    [ Risk_Category |-> category, Severity_Level |-> severity, Tool_Type |-> toolType ]

\* the explanation table: no row for Privacy at LOW, none for LLM_Tutors at MEDIUM
ExplanationRows ==
    << Explanation("Bias", "LOW", "Plagiarism_Detection"),
       Explanation("Bias", "MEDIUM", "Plagiarism_Detection"),
       Explanation("Bias", "HIGH", "Plagiarism_Detection"),
       Explanation("Bias", "CRITICAL", "Plagiarism_Detection"),
       Explanation("Privacy", "MEDIUM", "Plagiarism_Detection"),
       Explanation("Privacy", "HIGH", "Plagiarism_Detection"),
       Explanation("Privacy", "CRITICAL", "Plagiarism_Detection"),
       Explanation("Bias", "HIGH", "LLM_Tutors"),
       Explanation("Bias", "CRITICAL", "LLM_Tutors"),
       Explanation("Privacy", "HIGH", "LLM_Tutors"),
       Explanation("Privacy", "CRITICAL", "LLM_Tutors") >>

\* the letters checked in a form, from the answers saved from it
CheckedOf(answers) ==
    [i \in DOMAIN answers |-> {answers[i][k] : k \in 1..Len(answers[i])}]

(***************************************************************************)
(* SpecCalc: calculateAndShowResults from the states in which the          *)
(* context-next handler calls it, for tables drawn from three families.    *)
(***************************************************************************)
\* the state when the context-next handler has saved the answers and
\* entered the try block of calculateAndShowResults
CalcEntry(v, tool, toolRows, toolAnswers, contextRows, contextAnswers, rules) ==
    /\ ver = v
    /\ data = [ toolQuestions |-> toolRows, contextQuestions |-> contextRows,
                riskExplanations |-> ExplanationRows, compoundRiskRules |-> rules ]
    /\ state = [ currentSection |-> "context-questions",
                 selectedTool |-> tool,
                 toolAnswers |-> toolAnswers,
                 contextAnswers |-> contextAnswers,
                 currentToolQuestions |-> toolRows ]
    /\ dom = [ toolForm |-> [questions |-> toolRows, checked |-> CheckedOf(toolAnswers)],
               contextForm |-> [questions |-> contextRows, checked |-> CheckedOf(contextAnswers)],
               error |-> "", loading |-> TRUE, results |-> FALSE, panels |-> NoPanels ]
    /\ timers = <<>>
    /\ pc = FirstPhase(v)
    /\ idx = 1
    /\ profile = InitialProfile(tool)
    /\ log = <<>>
    /\ snap = InitialSnap
    /\ hist = [ clicks |-> 1, resets |-> 0, clicksSinceReset |-> <<tool>>,
                savedFrom |-> toolRows ]
    /\ fn = InitialFn
    /\ boot = Booted(data)

\* the answers a tool question can have: one radio button in the second
\* definition, one or both checkboxes in the first
AnswerPatterns(v) ==
    IF v = 1 THEN {<<"A">>, <<"A", "D">>} ELSE {<<"A">>, <<"D">>}

FoldFlags == [Categories -> {"TRUE", "FALSE"}] \cup {[c \in Categories |-> "1"]}
FoldCells == {Cell(f, s) : f \in FoldFlags, s \in SevStrings}

\* family 1: two tool questions with every flag and severity cell
InitFold ==
    \E v \in {1, 2} : \E c1, c2 \in FoldCells : \E a1, a2 \in AnswerPatterns(v) :
        CalcEntry(v, "plagiarism_detection",
            << QuestionRow("Plagiarism_Detection", Head(a1), c1),
               QuestionRow("Plagiarism_Detection", Head(a2), c2) >>,
            <<a1, a2>>, <<PlainContextRow>>, << <<"A">> >>, <<>>)

IntStrings == {ToString(i) : i \in (-MaxDelta)..MaxDelta}
BaseFlags == {[c \in Categories |-> "TRUE"],
              [c \in Categories |-> IF c = "Bias" THEN "TRUE" ELSE "FALSE"]}

\* family 2: one tool question, two context questions with every delta
InitContext ==
    \E base \in {Cell(f, s) : f \in BaseFlags, s \in Severity} :
        \/ \E m1 \in [Categories -> IntStrings], m2 \in [Categories -> DeltaStrings] :
              CalcEntry(2, "plagiarism_detection",
                  << QuestionRow("Plagiarism_Detection", "A", base) >>, << <<"A">> >>,
                  << ContextRow("A", m1, [c \in Categories |-> "TRUE"], "2"),
                     ContextRow("D", m2, [c \in Categories |-> "TRUE"], "2") >>,
                  << <<"A">>, <<"D">> >>, <<>>)
        \/ \E f1, f2 \in [Categories -> {"TRUE", "FALSE"}], g1, g2 \in DeltaStrings :
              CalcEntry(1, "plagiarism_detection",
                  << QuestionRow("Plagiarism_Detection", "A", base) >>, << <<"A">> >>,
                  << ContextRow("A", NoDeltas, f1, g1), ContextRow("D", NoDeltas, f2, g2) >>,
                  << <<"A">>, <<"D">> >>, <<>>)

RuleCells ==
    { Cell([c \in Categories |-> IF c = "Bias" THEN "TRUE" ELSE "FALSE"], "HIGH"),
      Cell([c \in Categories |-> IF c = "Bias" THEN "TRUE" ELSE "FALSE"], "CRITICAL"),
      Cell([c \in Categories |-> "TRUE"], "HIGH"),
      Cell([c \in Categories |-> "TRUE"], "CRITICAL") }

\* family 3: two tool questions, one context question, two rules
InitRules ==
    \E v \in {1, 2} : \E tool \in ToolKeys : \E c1, c2 \in RuleCells :
    \E a1, a2, a3 \in {<<"A">>, <<"D">>} : \E r1, r2 \in RuleRows :
        CalcEntry(v, tool,
            << QuestionRow(toolTypeMap(tool), Head(a1), c1),
               QuestionRow(toolTypeMap(tool), Head(a2), c2) >>,
            <<a1, a2>>,
            << ContextRow(Head(a3), NoDeltas, NoDeltas, "") >>, <<a3>>,
            <<r1, r2>>)

\* family 4: Bias at CRITICAL, the other category at any level or without
\* risk, and the 'Escalate_All_to_HIGH' rule before one more rule
InitEscalateAll ==
    \E v \in {1, 2} : \E tool \in ToolKeys : \E f \in BaseFlags : \E s \in Severity :
    \E a1, a3 \in {<<"A">>, <<"D">>} : \E r \in RuleRows \cup {NoEffectRule} :
        CalcEntry(v, tool,
            << QuestionRow(toolTypeMap(tool), "A", Cell(f, s)),
               QuestionRow(toolTypeMap(tool), "A",
                   Cell([c \in Categories |-> IF c = "Bias" THEN "TRUE" ELSE "FALSE"],
                        "CRITICAL")) >>,
            <<a1, <<"A">> >>,
            << ContextRow(Head(a3), NoDeltas, NoDeltas, "") >>, <<a3>>,
            <<EscalateAllRule, r>>)

CalcInit == InitFold \/ InitContext \/ InitRules \/ InitEscalateAll

SpecCalc == CalcInit /\ [][CalcNext]_vars

(***************************************************************************)
(* The page: the event handlers of setupEventListeners and the delayed     *)
(* callback of selectTool.  A button can be clicked only in the section    *)
(* that is shown; a handler runs to its end before the next event, so no   *)
(* event is taken while calculateAndShowResults is running.                *)
(***************************************************************************)
\* loadToolQuestions(toolTypeMap[tool]): the rows whose Tool_Type is the
\* tool's type; loadUsageQuestions(tool) compares the lower-cased strings
loadToolQuestions(v, tables, tool) ==
    SelectSeq(tables.toolQuestions,
        LAMBDA q :
            /\ q.Tool_Type \notin {"", Undefined}
            /\ IF v = 1
               THEN LowerTokens(q.Tool_Type) = LowerTokens(tool)
               ELSE q.Tool_Type = toolTypeMap(tool))

\* createQuestionElement: radio buttons; the first definition renders
\* checkboxes for more than two options or response_type 'multiple'
InputType(v, question) ==
    IF v = 1 /\ (Cardinality(question.Answers) > 2 \/ question.response_type = "multiple")
    THEN "checkbox" ELSE "radio"

\* a form rendered for the given question rows, nothing checked
RenderForm(questions) ==
    [questions |-> questions, checked |-> [i \in 1..Len(questions) |-> {}]]

\* mutant of FormIsValid: one answered question is enough
FormIsValidSome(form) ==
    form.questions = <<>> \/ \E i \in 1..Len(form.questions) : form.checked[i] # {}

\* validateToolAnswers / validateContextAnswers: every question group has a checked input
FormIsValid(form) == \A i \in 1..Len(form.questions) : form.checked[i] # {}

\* saveToolAnswers / saveContextAnswers: the checked values per question, in
\* document order; the second definition keeps one value per question
SavedAnswers(form) ==
    [i \in 1..Len(form.questions) |->
        SelectSeq(OptionLetters, LAMBDA l : l \in form.checked[i])]

\* the user checks (or, for a checkbox, toggles) an input
CheckInput(v, form, i, letter) ==
    [form EXCEPT !.checked[i] =
        IF InputType(v, form.questions[i]) = "radio" THEN {letter}
        ELSE IF letter \in @ THEN @ \ {letter} ELSE @ \cup {letter}]

\* selectTool up to the setTimeout call
ClickToolCard(tool) ==
    /\ pc = "idle"
    /\ boot.listeners
    /\ state.currentSection = "tool-selection"
    /\ hist.clicks < MaxClicks
    /\ state' = [state EXCEPT !.selectedTool = tool]
    /\ timers' = Append(timers, tool)
    /\ hist' = [hist EXCEPT !.clicks = @ + 1, !.clicksSinceReset = Append(@, tool)]
    /\ UNCHANGED <<ver, data, dom, pc, idx, profile, log, snap, fn, boot>>

\* the callback of setTimeout(..., 300): the oldest pending one runs first
TimerFires ==
    /\ pc = "idle"
    /\ timers # <<>>
    /\ timers' = Tail(timers)
    /\ LET toolQuestions == loadToolQuestions(ver, data, Head(timers))
       IN  IF toolQuestions = <<>>
           THEN /\ dom' = [dom EXCEPT !.error = "No questions found", !.loading = FALSE]
                /\ UNCHANGED state
           ELSE /\ dom' = [dom EXCEPT !.toolForm = RenderForm(toolQuestions)]
                /\ state' = [state EXCEPT !.currentToolQuestions = toolQuestions,
                                          !.currentSection = ToolSection(ver)]
    /\ UNCHANGED <<ver, data, pc, idx, profile, log, snap, hist, fn, boot>>

CheckToolInput(i, letter) ==
    /\ pc = "idle"
    /\ state.currentSection = ToolSection(ver)
    /\ i \in 1..Len(dom.toolForm.questions)
    /\ letter \in dom.toolForm.questions[i].Answers
    /\ dom' = [dom EXCEPT !.toolForm = CheckInput(ver, @, i, letter)]
    /\ UNCHANGED <<ver, data, state, timers, pc, idx, profile, log, snap, hist, fn, boot>>

CheckContextInput(i, letter) ==
    /\ pc = "idle"
    /\ state.currentSection = "context-questions"
    /\ i \in 1..Len(dom.contextForm.questions)
    /\ letter \in dom.contextForm.questions[i].Answers
    /\ dom' = [dom EXCEPT !.contextForm = CheckInput(ver, @, i, letter)]
    /\ UNCHANGED <<ver, data, state, timers, pc, idx, profile, log, snap, hist, fn, boot>>

\* tool-back (usage-back)
ToolBack ==
    /\ pc = "idle"
    /\ boot.listeners
    /\ state.currentSection = ToolSection(ver)
    /\ state' = [state EXCEPT !.currentSection = "tool-selection"]
    /\ UNCHANGED <<ver, data, dom, timers, pc, idx, profile, log, snap, hist, fn, boot>>

\* tool-next (usage-next)
ToolNext ==
    /\ pc = "idle"
    /\ boot.listeners
    /\ state.currentSection = ToolSection(ver)
    /\ IF FormIsValid(dom.toolForm)
       THEN /\ state' = [state EXCEPT !.toolAnswers = SavedAnswers(dom.toolForm),
                                      !.currentSection = "context-questions"]
            /\ dom' = [dom EXCEPT !.contextForm = RenderForm(data.contextQuestions)]
            /\ hist' = [hist EXCEPT !.savedFrom = dom.toolForm.questions]
       ELSE /\ dom' = [dom EXCEPT !.error = "Please answer all questions before proceeding.",
                                  !.loading = FALSE]
            /\ UNCHANGED <<state, hist>>
    /\ UNCHANGED <<ver, data, timers, pc, idx, profile, log, snap, fn, boot>>

ContextBack ==
    /\ pc = "idle"
    /\ boot.listeners
    /\ state.currentSection = "context-questions"
    /\ state' = [state EXCEPT !.currentSection = ToolSection(ver)]
    /\ UNCHANGED <<ver, data, dom, timers, pc, idx, profile, log, snap, hist, fn, boot>>

\* context-next: on a valid form the answers are saved and
\* calculateAndShowResults is entered
ContextNext ==
    /\ pc = "idle"
    /\ boot.listeners
    /\ state.currentSection = "context-questions"
    /\ IF FormIsValid(dom.contextForm)
       THEN /\ state' = [state EXCEPT !.contextAnswers = SavedAnswers(dom.contextForm)]
            /\ dom' = [dom EXCEPT !.loading = TRUE]
            /\ BeginCalculation
       ELSE /\ dom' = [dom EXCEPT !.error = "Please answer all questions before proceeding.",
                                  !.loading = FALSE]
            /\ UNCHANGED <<state, pc, idx, profile, log, snap>>
    /\ UNCHANGED <<ver, data, timers, hist, fn, boot>>

\* new-assessment: resetAssessment.  Pending selectTool callbacks are not cancelled.
NewAssessment ==
    /\ pc = "idle"
    /\ boot.listeners
    /\ state.currentSection = "results"
    /\ hist.resets < MaxResets
    /\ state' = InitialState
    /\ dom' = [dom EXCEPT !.toolForm = EmptyForm, !.contextForm = EmptyForm,
                          !.results = FALSE, !.panels = NoPanels]
    /\ hist' = [hist EXCEPT !.resets = @ + 1, !.clicksSinceReset = <<>>, !.savedFrom = <<>>]
    \* the profile that was displayed is gone with results-content
    /\ idx' = 1
    /\ profile' = InitialProfile(NoTool)
    /\ log' = <<>>
    /\ snap' = InitialSnap
    /\ UNCHANGED <<ver, data, timers, pc, fn, boot>>

\* the error banner removes itself after five seconds
ErrorExpires ==
    /\ pc = "idle"
    /\ dom.error # ""
    /\ dom' = [dom EXCEPT !.error = ""]
    /\ UNCHANGED <<ver, data, state, timers, pc, idx, profile, log, snap, hist, fn, boot>>

\* the tables of Spec: one question per tool, or two for plagiarism_detection
\* and none for llm_tutors
BiasOnly == [c \in Categories |-> IF c = "Bias" THEN "TRUE" ELSE "FALSE"]
PrivacyOnly == [c \in Categories |-> IF c = "Privacy" THEN "TRUE" ELSE "FALSE"]
\* a question row with response_type 'single': radio buttons in both definitions
SingleChoice(question) == [question EXCEPT !.response_type = "single"]

PageQuestions ==
    { << QuestionRow("Plagiarism_Detection", "A", Cell(BiasOnly, "CRITICAL")),
         QuestionRow("LLM_Tutors", "A", Cell(PrivacyOnly, "MEDIUM")) >>,
      << SingleChoice(QuestionRow("Plagiarism_Detection", "A", Cell(BiasOnly, "CRITICAL"))),
         SingleChoice(QuestionRow("Plagiarism_Detection", "D", Cell(PrivacyOnly, "MEDIUM"))) >> }

PageTables(toolQuestions) ==
    [ toolQuestions |-> toolQuestions,
      contextQuestions |->
        << ContextRow("A", [c \in Categories |-> IF c = "Bias" THEN "-1" ELSE "1"],
                      [c \in Categories |-> "TRUE"], "1") >>,
      riskExplanations |-> ExplanationRows,
      compoundRiskRules |->
        << Rule("R4", "LLM_Tutors", {"Integration=Automated"},
                <<"Escalate", "to", "CRITICAL">>, "W4", {"Privacy"}) >> ]

\* mutant of PromiseAllFulfilled: init goes on while one load is still pending
PromiseAllFulfilledEarly(pending, rejected) == Cardinality(pending) <= 1 /\ ~rejected

\* await Promise.all(promises): fulfilled when the last load has completed
\* and none was rejected
PromiseAllFulfilled(pending, rejected) == pending = {} /\ ~rejected

\* loadCSV resolves for one file: the table is stored; after the last one
\* init goes on to setupEventListeners and hideLoading
LoadCompletes(key) ==
    /\ key \in boot.pending
    /\ data' = [data EXCEPT ![key] = boot.files[key]]
    /\ LET fulfilled == PromiseAllFulfilled(boot.pending \ {key}, boot.caught)
       IN  /\ boot' = [boot EXCEPT !.pending = @ \ {key},
                                   !.listeners = @ \/ fulfilled]
           /\ dom' = IF fulfilled THEN [dom EXCEPT !.loading = FALSE] ELSE dom
    /\ UNCHANGED <<ver, state, timers, pc, idx, profile, log, snap, hist, fn>>

\* loadCSV rejects for one file: Promise.all rejects at the first rejection and
\* init's catch block calls showError; the other loads go on
LoadFails(key) ==
    /\ key \in boot.pending
    /\ boot' = [boot EXCEPT !.pending = @ \ {key}, !.caught = TRUE]
    /\ dom' = IF boot.caught THEN dom
              ELSE [dom EXCEPT !.error = "Failed to load assessment data. Please refresh the page.",
                               !.loading = FALSE]
    /\ UNCHANGED <<ver, data, state, timers, pc, idx, profile, log, snap, hist, fn>>

\* the application when the constructor has called init(): showLoading, the
\* four loads started
Init ==
    /\ ver \in {1, 2}
    /\ data = NoTables
    /\ \E toolQuestions \in PageQuestions :
          boot = [files |-> PageTables(toolQuestions), pending |-> TableKeys,
                  caught |-> FALSE, listeners |-> FALSE]
    /\ state = InitialState
    /\ dom = [InitialDom EXCEPT !.loading = TRUE]
    /\ timers = <<>>
    /\ pc = "idle"
    /\ idx = 1
    /\ profile = InitialProfile(NoTool)
    /\ log = <<>>
    /\ snap = InitialSnap
    /\ hist = InitialHist
    /\ fn = InitialFn

Next ==
    \/ \E key \in TableKeys : LoadCompletes(key)
    \/ \E key \in TableKeys : LoadFails(key)
    \/ \E tool \in ToolKeys : ClickToolCard(tool)
    \/ TimerFires
    \/ \E i \in 1..2, letter \in Letters : CheckToolInput(i, letter)
    \/ \E i \in 1..2, letter \in Letters : CheckContextInput(i, letter)
    \/ ToolBack
    \/ ToolNext
    \/ ContextBack
    \/ ContextNext
    \/ NewAssessment
    \/ ErrorExpires
    \/ CalcNext

Spec == Init /\ [][Next]_vars

(***************************************************************************)
(* SpecModifier: applySeverityModifier on every level and every modifier   *)
(* of -MaxModifier..MaxModifier.                                           *)
(***************************************************************************)
ModifierInit ==
    /\ ver \in {1, 2}
    /\ data = NoTables
    /\ state = InitialState
    /\ dom = InitialDom
    /\ timers = <<>>
    /\ pc = "idle"
    /\ idx = 1
    /\ profile = InitialProfile(NoTool)
    /\ log = <<>>
    /\ snap = InitialSnap
    /\ hist = InitialHist
    /\ \E s \in Severity, m \in (-MaxModifier)..MaxModifier :
          fn = [severity |-> s, modifier |-> m, result |-> "", called |-> FALSE]
    /\ boot = Booted(NoTables)

CallApplySeverityModifier ==
    /\ ~fn.called
    /\ fn' = [fn EXCEPT !.result = applySeverityModifier(fn.severity, fn.modifier),
                        !.called = TRUE]
    /\ UNCHANGED <<ver, data, state, dom, timers, pc, idx, profile, log, snap, hist, boot>>

SpecModifier == ModifierInit /\ [][CallApplySeverityModifier]_vars

(***************************************************************************)
(* Notions the properties share.                                           *)
(***************************************************************************)
Elems(seq) == {seq[i] : i \in 1..Len(seq)}
Count(seq, e) == Cardinality({i \in 1..Len(seq) : seq[i] = e})
SetMax(S) == CHOOSE x \in S : \A y \in S : y <= x

\* the calculation has left the loop over the tool answers, the context
\* answers, the rules; it has returned its profile
FoldDone == pc \in {"context", "rules", "explain", "overall", "display"}
ContextDone == pc \in {"rules", "explain", "overall", "display"}
RulesDone == pc \in {"explain", "overall", "display"}
Returned == pc = "display"

\* a category with a risk: hasRisk in the second definition, a non-empty
\* risks array in the first
HasRisk(v, p, c) == IF v = 1 THEN p.risks[c] > 0 ELSE p.hasRisk[c]

(***************************************************************************)
(* C1.  In the profile calculateRiskProfile returns, the severity of every *)
(* harm category and overallRisk are one of LOW, MEDIUM, HIGH, CRITICAL,   *)
(* whatever the tables hold.  The second definition's applyRule stores the *)
(* text after '_to_' of an Escalation_Effect unchecked, so this fails.     *)
(***************************************************************************)
C1_SeveritiesInEnumeration ==
    Returned =>
        /\ profile.overallRisk \in Severity
        /\ \A c \in Categories : profile.severity[c] \in Severity

(***************************************************************************)
(* C2.  applySeverityModifier(s, m) returns the level whose ordinal is     *)
(* min(3, max(0, ord(s) + m)), for every level s and every modifier m.     *)
(***************************************************************************)
C2_ModifierIsClamped ==
    fn.called =>
        fn.result = severityLevels[Min2(3, Max2(0, IndexOf(fn.severity) + fn.modifier)) + 1]

\* a call that is capped at CRITICAL
C2_Witness ==
    /\ fn.called
    /\ fn.modifier > 0
    /\ IndexOf(fn.severity) + fn.modifier > 3
    /\ fn.result = "CRITICAL"

(***************************************************************************)
(* C3.  Within one run the steps happen in a fixed order: every tool       *)
(* answer is folded before any context modifier is applied, every context  *)
(* modifier before any rule is tested, every rule before overallRisk is    *)
(* determined, and displayResults runs only after overallRisk was          *)
(* determined.                                                             *)
(***************************************************************************)
StepRank(e) ==
    CASE e = "fold" -> 1 [] e = "context" -> 2 [] e = "rule" -> 3
      [] e = "explain" -> 4 [] e = "overall" -> 5 [] e = "display" -> 6

C3_StepsInOrder ==
    /\ \A i, j \in 1..Len(log) : i < j => StepRank(log[i]) <= StepRank(log[j])
    /\ (\E i \in 1..Len(log) : StepRank(log[i]) >= 2) =>
            Count(log, "fold") = Len(state.currentToolQuestions)
    /\ (\E i \in 1..Len(log) : StepRank(log[i]) >= 3) =>
            Count(log, "context") = Len(data.contextQuestions)
    /\ "overall" \in Elems(log) =>
            Count(log, "rule") = Len(data.compoundRiskRules)
    /\ "display" \in Elems(log) => Count(log, "overall") = 1

\* a run with two tool answers, a context answer and two rules that was displayed
C3_Witness ==
    /\ "display" \in Elems(log)
    /\ Count(log, "fold") = 2
    /\ Count(log, "context") = 1
    /\ Count(log, "rule") = 2

(***************************************************************************)
(* C4.  After the tool answers are folded, the severity of each category   *)
(* is the maximum of the per-option severities of the selected answers     *)
(* that flag the category (a severity string that is no level takes no     *)
(* part, a missing one counts as LOW), LOW when none flags it; folding the *)
(* questions in the reverse order gives the same severities.               *)
(***************************************************************************)
\* the ordinals of the severities of the selected answers that flag category c
FlaggedOrdinals(c) ==
    { IndexOf(SeverityCell(state.currentToolQuestions[i], AnswerOf(state.toolAnswers, i)[k])) :
        <<i, k>> \in { ik \in (1..Len(state.currentToolQuestions)) \X (1..Len(OptionLetters)) :
            /\ ik[2] <= Len(AnswerOf(state.toolAnswers, ik[1]))
            /\ LET q == state.currentToolQuestions[ik[1]]
                   a == AnswerOf(state.toolAnswers, ik[1])[ik[2]]
               IN  IF ver = 1 THEN Flagged1(q, a, c) ELSE Flagged2(q, a, c) } }

C4_FoldIsMaximum ==
    FoldDone =>
        \A c \in Categories :
            /\ snap.afterFold.severity[c] \in Severity
            /\ IndexOf(snap.afterFold.severity[c]) = SetMax(FlaggedOrdinals(c) \cup {0})
            /\ FoldToolAnswers(Reversed(TableOrder(state.currentToolQuestions)), ver, state,
                   InitialProfile(state.selectedTool)).severity[c]
               = snap.afterFold.severity[c]

\* the first answer flags Bias at CRITICAL, the second flags it at MEDIUM
C4_Witness ==
    /\ FoldDone
    /\ Len(state.currentToolQuestions) = 2
    /\ FlaggedOrdinals("Bias") = {1, 3}
    /\ state.currentToolQuestions[2].Severity[AnswerOf(state.toolAnswers, 2)[1]] = "MEDIUM"
    /\ snap.afterFold.severity["Bias"] = "CRITICAL"

DeltaOf(question, answer, c) == parseIntOr0(question.Modifier[answer][c])

RECURSIVE ShiftedByOwnDelta(_, _, _, _)
ShiftedByOwnDelta(question, answers, p, c) ==
    IF answers = <<>> THEN p.severity[c]
    ELSE LET delta == DeltaOf(question, Head(answers), c)
             shifted == IF delta # 0 /\ HasRisk(ver, p, c)
                        THEN applySeverityModifier(p.severity[c], delta)
                        ELSE p.severity[c]
         IN  ShiftedByOwnDelta(question, Tail(answers),
                [p EXCEPT !.severity[c] = shifted], c)

C6_DeltaOfCategory ==
    [][ (pc = "context" /\ idx <= Len(data.contextQuestions)) =>
            \A c \in Categories :
                profile'.severity[c] =
                    ShiftedByOwnDelta(data.contextQuestions[idx],
                        AnswerOf(state.contextAnswers, idx), profile, c) ]_vars

(***************************************************************************)
(* C7.  The overallRisk of the returned profile is the highest severity    *)
(* among the harm categories (in the second definition: those with hasRisk *)
(* true), LOW when there is none; so it is never lower than the severity   *)
(* of a category that has a risk.  A severity that applyRule took from an  *)
(* Escalation_Effect and that is no level (C1) is skipped by               *)
(* determineOverallRisk, so this fails.                                    *)
(***************************************************************************)
C7_OverallIsHighest ==
    Returned =>
        LET counted == {c \in Categories : ver = 1 \/ profile.hasRisk[c]}
        IN  /\ profile.overallRisk \in Severity
            /\ \A c \in counted :
                  /\ profile.severity[c] \in Severity
                  /\ IndexOf(profile.severity[c]) <= IndexOf(profile.overallRisk)
            /\ \/ \E c \in counted : profile.severity[c] = profile.overallRisk
               \/ profile.overallRisk = "LOW"

(***************************************************************************)
(* C8.  As stated: applying the context answers in the other order gives   *)
(* the same severity for every category.                                   *)
(***************************************************************************)
\* the severities the context answers give when applied in reverse table order
ReverseContext ==
    FoldContextAnswers(Reversed(TableOrder(data.contextQuestions)), ver,
        data.contextQuestions, state, snap.afterFold).severity

C8_OrderIndependent ==
    ContextDone => \A c \in Categories : ReverseContext[c] = snap.afterContext.severity[c]

(***************************************************************************)
(* C8, amended.  In the second definition, when the deltas of the context  *)
(* answers for a category are not of opposite signs, either order gives    *)
(* the same severity for that category; in the first definition every      *)
(* order gives the same severities.                                        *)
(***************************************************************************)
\* the deltas the saved context answers hold for category c
ContextDeltas(c) ==
    { DeltaOf(data.contextQuestions[i], AnswerOf(state.contextAnswers, i)[1], c) :
        i \in {k \in 1..Len(data.contextQuestions) : AnswerOf(state.contextAnswers, k) # <<>>} }

SameSign(c) ==
    \/ \A d \in ContextDeltas(c) : d >= 0
    \/ \A d \in ContextDeltas(c) : d <= 0

C8_SameSignOrderIndependent ==
    ContextDone =>
        \A c \in Categories :
            (ver = 1 \/ SameSign(c)) => ReverseContext[c] = snap.afterContext.severity[c]

\* two different raises of Bias, the second one capped at CRITICAL
C8_Witness ==
    /\ ContextDone
    /\ ver = 2
    /\ ContextDeltas("Bias") = {1, 2}
    /\ snap.afterFold.hasRisk["Bias"]
    /\ snap.afterFold.severity["Bias"] = "HIGH"
    /\ snap.afterContext.severity["Bias"] = "CRITICAL"

(***************************************************************************)
(* C9: whenever a risk profile is calculated, state.selectedTool is        *)
(* non-null, state.currentToolQuestions is exactly the question rows of    *)
(* the tool state.selectedTool names, and state.toolAnswers were saved     *)
(* from the form rendered for those questions, for every interleaving of   *)
(* tool-card clicks, delayed question loads, navigation and reset.         *)
(* The callbacks selectTool leaves pending are never cancelled, so a       *)
(* second click or a reset followed by an old callback breaks it.          *)
(***************************************************************************)
C9_CalculationOnSelectedTool ==
    pc # "idle" =>
        /\ state.selectedTool # NoTool
        /\ state.currentToolQuestions = loadToolQuestions(ver, data, state.selectedTool)
        /\ hist.savedFrom = state.currentToolQuestions

(***************************************************************************)
(* C10, first half: resetAssessment leaves the initial state and the       *)
(* loaded tables as they were.                                             *)
(***************************************************************************)
ResetRestoresInitialState ==
    [][NewAssessment => (state' = InitialState /\ data' = data)]_vars

\* the state of a freshly loaded application that was given the same tool
\* and the same answers
FreshAssessment ==
    [state EXCEPT !.currentToolQuestions = loadToolQuestions(ver, data, state.selectedTool)]

(***************************************************************************)
(* C10: the profile computed by a complete assessment made after a reset   *)
(* (one tool chosen since the reset) is the profile a freshly loaded       *)
(* application computes for the same tool and answers.  A question load    *)
(* that the earlier assessment left pending survives the reset and puts    *)
(* the other tool's questions under the newly chosen tool.                 *)
(***************************************************************************)
C10_ResetLeavesNoTrace ==
    (hist.resets > 0 /\ Len(hist.clicksSinceReset) = 1 /\ Returned) =>
        profile = calculateRiskProfile(ver, data, FreshAssessment)

(***************************************************************************)
(* C11: the section shown follows the wizard order only: currentSection is *)
(* one of the four sections, moves forward one step at a time, backward    *)
(* one step with the back buttons only, and from 'results' only to         *)
(* 'tool-selection' through resetAssessment.  A question load that         *)
(* selectTool left pending calls showSection from whatever section is      *)
(* shown when it fires.                                                    *)
(***************************************************************************)
WizardSections == {"tool-selection", ToolSection(ver), "context-questions", "results"}

SectionMove(from, to) ==
    /\ state.currentSection = from
    /\ state'.currentSection = to

C11_WizardOrder ==
    [][ /\ state'.currentSection \in WizardSections
        /\ state'.currentSection # state.currentSection =>
            \/ SectionMove("tool-selection", ToolSection(ver))
            \/ SectionMove(ToolSection(ver), "context-questions")
            \/ SectionMove("context-questions", "results")
            \/ SectionMove(ToolSection(ver), "tool-selection") /\ ToolBack
            \/ SectionMove("context-questions", ToolSection(ver)) /\ ContextBack
            \/ SectionMove("results", "tool-selection") /\ NewAssessment ]_vars

(***************************************************************************)
(* C12: the next button of the tool-question section moves to              *)
(* 'context-questions' and saves the tool answers only when every rendered *)
(* tool question has a checked option; with a question unanswered the      *)
(* state is unchanged and an error banner is shown.  Likewise context-next *)
(* starts the calculation only when every context question is answered.    *)
(***************************************************************************)
AllAnswered(form) == \A i \in DOMAIN form.checked : form.checked[i] # {}

SavedFrom(answers, form) ==
    /\ DOMAIN answers = DOMAIN form.checked
    /\ \A i \in DOMAIN answers :
          {answers[i][k] : k \in 1..Len(answers[i])} = form.checked[i]

C12_NextNeedsAllAnswers ==
    [][ /\ ToolNext =>
              IF AllAnswered(dom.toolForm)
              THEN /\ state'.currentSection = "context-questions"
                   /\ SavedFrom(state'.toolAnswers, dom.toolForm)
              ELSE /\ state' = state
                   /\ dom'.error # ""
        /\ ContextNext =>
              IF AllAnswered(dom.contextForm)
              THEN /\ pc' # "idle"
                   /\ SavedFrom(state'.contextAnswers, dom.contextForm)
              ELSE /\ state' = state
                   /\ pc' = "idle"
                   /\ dom'.error # ""
        /\ SectionMove(ToolSection(ver), "context-questions") => AllAnswered(dom.toolForm)
        /\ (pc = "idle" /\ pc' # "idle") => AllAnswered(dom.contextForm) ]_vars

\* the banner is up in the tool-question section, one question answered, one not
C12_Witness ==
    /\ state.currentSection = ToolSection(ver)
    /\ dom.error = "Please answer all questions before proceeding."
    /\ state.toolAnswers = <<>>
    /\ \E i, j \in DOMAIN dom.toolForm.checked :
          dom.toolForm.checked[i] # {} /\ dom.toolForm.checked[j] = {}

(***************************************************************************)
(* C13: no user event is handled before all four CSV tables are loaded    *)
(* and stored: the listeners are registered only after every one of the    *)
(* four parallel loads has completed, in whatever order; if any load       *)
(* fails no listener is ever registered, the error banner is shown and the *)
(* loading indicator is hidden.                                            *)
(***************************************************************************)
\* a step in which a click handler of setupEventListeners ran
UserEventHandled ==
    \/ state' # state
    \/ hist' # hist
    \/ Len(timers') > Len(timers)
    \/ /\ pc = "idle"
       /\ dom'.error = "Please answer all questions before proceeding."
       /\ dom'.error # dom.error

AllTablesStored == boot.pending = {} /\ ~boot.caught /\ data = boot.files

C13_ListenersAfterAllLoads ==
    [][ /\ boot'.listeners => (boot'.pending = {} /\ ~boot'.caught /\ data' = boot'.files)
        /\ UserEventHandled => (boot.listeners /\ AllTablesStored)
        /\ boot'.caught => (~boot'.listeners /\ ~dom'.loading)
        /\ (~boot.caught /\ boot'.caught) =>
              dom'.error = "Failed to load assessment data. Please refresh the page." ]_vars

\* a click was handled, and the tables the handlers read are the files'
C13_Witness ==
    /\ boot.listeners
    /\ AllTablesStored
    /\ hist.clicks > 0
    /\ state.currentSection = "context-questions"

(***************************************************************************)
(* C14: compound rules only escalate: after applyCompoundRiskRules no harm *)
(* category has a severity lower than it had before the rules were         *)
(* applied.  The branch for 'Escalate_<Category>_to_<Level>' assigns the   *)
(* level without comparing it with the current one.                        *)
(***************************************************************************)
\* severity `after` is a level below the level `before`
LowerLevel(after, before) ==
    /\ after \in Severity
    /\ before \in Severity
    /\ IndexOf(after) < IndexOf(before)

C14_RulesOnlyEscalate ==
    RulesDone =>
        \A c \in Categories :
            ~LowerLevel(snap.afterRules.severity[c], snap.afterContext.severity[c])

(***************************************************************************)
(* C15: an applied rule whose Escalation_Effect is 'Escalate_All_to_HIGH'  *)
(* sets to HIGH the severity of every category that has hasRisk true and a *)
(* severity below HIGH, and leaves every other category unchanged.  The    *)
(* text contains 'Escalate_' and '_to_', so applyRule takes the branch     *)
(* before it and looks for a category named 'All'.                         *)
(***************************************************************************)
\* this step applies the rule at idx
RuleApplied == pc = "rules" /\ Len(snap'.applied) > Len(snap.applied)

C15_EscalateAllToHigh ==
    [][ (RuleApplied /\ data.compoundRiskRules[idx].Escalation_Effect
                            = <<"Escalate", "All", "to", "HIGH">>) =>
            \A c \in Categories :
                profile'.severity[c] =
                    IF profile.hasRisk[c] /\ LowerLevel(profile.severity[c], "HIGH")
                    THEN "HIGH" ELSE profile.severity[c] ]_vars

(***************************************************************************)
(* C16: a rule whose Trigger_Conditions contain 'Bias=HIGH' applies only   *)
(* when the accumulated severity of Bias is HIGH, and one whose conditions *)
(* contain 'Bias=CRITICAL' only when it is CRITICAL, whatever other        *)
(* condition texts the rule contains.  When the severity test fails,       *)
(* ruleApplies goes on to the tests that follow it.                        *)
(***************************************************************************)
C16_SeverityConditionIsNecessary ==
    [][ RuleApplied =>
            LET conditions == data.compoundRiskRules[idx].Trigger_Conditions
            IN  /\ "Bias=HIGH" \in conditions => profile.severity["Bias"] = "HIGH"
                /\ "Bias=CRITICAL" \in conditions => profile.severity["Bias"] = "CRITICAL"
      ]_vars

(***************************************************************************)
(* C17: the compound rules are handled in one pass in table order, and     *)
(* each rule's condition is tested against the severities as they are      *)
(* after the effects of the rules before it: an escalation can make a      *)
(* later rule of the same pass apply, never an earlier one, and no rule is *)
(* tested twice.                                                           *)
(***************************************************************************)
C17_OnePassInTableOrder ==
    [][ /\ (pc = "rules" /\ pc' = "rules") =>
              LET rule == data.compoundRiskRules[idx]
              IN  /\ idx <= Len(data.compoundRiskRules)
                  /\ idx' = idx + 1
                  /\ RuleApplied <=> ruleApplies(ver, rule, profile, state)
                  /\ IF RuleApplied
                     THEN /\ profile' = applyRule(ver, rule, profile)
                          /\ snap'.applied = Append(snap.applied, idx)
                     ELSE /\ profile' = profile
                          /\ snap'.applied = snap.applied
        /\ (pc = "rules" /\ pc' \notin {"rules", "catch"}) =>
              /\ idx = Len(data.compoundRiskRules) + 1
              /\ Len(SelectSeq(log, LAMBDA step : step = "rule")) = Len(data.compoundRiskRules)
      ]_vars

\* the second rule, a count rule, applied only because of what the first one did
C17_Witness ==
    /\ RulesDone
    /\ snap.applied = <<1, 2>>
    /\ "Count_CRITICAL_Risks>=2" \in data.compoundRiskRules[2].Trigger_Conditions
    /\ ~ruleApplies(ver, data.compoundRiskRules[2], snap.afterContext, state)
    /\ snap.afterRules.severity # snap.afterContext.severity

(***************************************************************************)
(* C18: every entry of profile.activeRisks carries an explanation row      *)
(* whose Risk_Category is the entry's category, whose Severity_Level is    *)
(* that category's final severity (after context modifiers and compound    *)
(* rules) and whose Tool_Type is the table name of the selected tool;      *)
(* there is at most one entry per category and only categories with        *)
(* hasRisk true have one.                                                  *)
(***************************************************************************)
ExplanationsAdded == pc \in {"overall", "display"} /\ ver = 2

C18_ActiveRisksMatch ==
    /\ pc \in {"fold", "context", "rules", "explain"} => profile.activeRisks = <<>>
    /\ ExplanationsAdded =>
          \A i \in 1..Len(profile.activeRisks) :
              LET entry == profile.activeRisks[i]
              IN  /\ entry.category \in Categories
                  /\ profile.hasRisk[entry.category]
                  /\ entry.severity = snap.afterRules.severity[entry.category]
                  /\ entry.explanation.Risk_Category = entry.category
                  /\ entry.explanation.Severity_Level = snap.afterRules.severity[entry.category]
                  /\ entry.explanation.Tool_Type = toolTypeMap(state.selectedTool)
                  /\ \A j \in 1..Len(profile.activeRisks) :
                        j # i => profile.activeRisks[j].category # entry.category

\* both categories have an entry, one at a severity that the rules gave it
C18_Witness ==
    /\ ExplanationsAdded
    /\ state.selectedTool = "llm_tutors"
    /\ Len(profile.activeRisks) = 2
    /\ \E c \in Categories : snap.afterRules.severity[c] # snap.afterContext.severity[c]

(***************************************************************************)
(* C19: in the second definition, at every point of calculateRiskProfile   *)
(* and in the returned profile, a harm category with hasRisk false has     *)
(* severity LOW: context modifiers never change a category that no         *)
(* selected tool answer flagged, and every rule effect that changes such a *)
(* category's severity also sets its hasRisk to true.                      *)
(***************************************************************************)
C19_NoRiskMeansLow ==
    ver = 2 =>
        \A c \in Categories : ~profile.hasRisk[c] => profile.severity[c] = "LOW"

\* a context answer with a positive delta for a category that no tool answer flagged
C19_Witness ==
    /\ ver = 2
    /\ ContextDone
    /\ ~profile.hasRisk["Privacy"]
    /\ profile.hasRisk["Bias"]
    /\ state.contextAnswers[1] = <<"A">>
    /\ parseIntOr0(data.contextQuestions[1].Modifier["A"]["Privacy"]) > 0

(***************************************************************************)
(* C20: in the first definition a context modifier never lowers a          *)
(* severity: after applyContextModifiers every category's severity is at   *)
(* least what it was before, a negative delta has no effect, and a         *)
(* positive delta raises the severity (of the categories the answer        *)
(* affects) by that many levels, capped at CRITICAL.                       *)
(***************************************************************************)
\* this step is applyContextModifiers for the one answer of context question idx
ContextStepOfOneAnswer ==
    /\ pc = "context"
    /\ pc' = "context"
    /\ Len(AnswerOf(state.contextAnswers, idx)) = 1

C20_FirstDefinitionOnlyRaises ==
    [][ (ver = 1 /\ ContextStepOfOneAnswer) =>
            LET question == data.contextQuestions[idx]
                answer == state.contextAnswers[idx][1]
                delta == parseIntOr0(question.Age_Modifier[answer])
            IN  \A c \in Categories :
                    /\ IndexOf(profile'.severity[c]) >= IndexOf(profile.severity[c])
                    /\ profile'.severity[c] =
                          IF question.Affects[answer][c] = "TRUE" /\ delta > 0
                          THEN severityLevels[Min2(MaxIndex, IndexOf(profile.severity[c]) + delta) + 1]
                          ELSE profile.severity[c] ]_vars

\* HIGH raised by 2 stops at CRITICAL, and the -1 of the next answer leaves it there
C20_Witness ==
    /\ ver = 1
    /\ ContextDone
    /\ snap.afterFold.severity["Bias"] = "HIGH"
    /\ data.contextQuestions[1].Age_Modifier["A"] = "2"
    /\ data.contextQuestions[1].Affects["A"]["Bias"] = "TRUE"
    /\ data.contextQuestions[2].Age_Modifier["D"] = "-1"
    /\ data.contextQuestions[2].Affects["D"]["Bias"] = "TRUE"
    /\ snap.afterContext.severity["Bias"] = "CRITICAL"

(***************************************************************************)
(* C21: the results page shows the 'No Significant Risks Identified' panel *)
(* only when no harm category has a risk: whenever some category has       *)
(* hasRisk true (in particular whenever overallRisk is above LOW),         *)
(* profile.activeRisks is non-empty and that category is listed in the     *)
(* risk analysis.  A category whose severity has no explanation row for    *)
(* the tool gets no entry.                                                 *)
(***************************************************************************)
ResultsShown == ver = 2 /\ pc = "idle" /\ dom.results

C21_RisksAreListed ==
    ResultsShown =>
        /\ dom.panels.noRisks => \A c \in Categories : ~profile.hasRisk[c]
        /\ \A c \in Categories :
              profile.hasRisk[c] =>
                  /\ profile.activeRisks # <<>>
                  /\ \E i \in 1..Len(dom.panels.listed) : dom.panels.listed[i] = c

(***************************************************************************)
(* C22: when calculateRiskProfile throws during calculateAndShowResults    *)
(* (a rule row without Tool_Type, or selectedTool null when a rule is      *)
(* tested), the results section is not entered: currentSection stays       *)
(* 'context-questions', the error banner is shown, the saved answers are   *)
(* kept, and the loading indicator is hidden when calculateAndShowResults  *)
(* returns, on the success path as well as on the error path.              *)
(***************************************************************************)
CalculationError == "Error calculating risk assessment. Please try again."

C22_ThrowStaysOnContextQuestions ==
    [][ /\ pc = "catch" =>
            /\ state.currentSection = "context-questions"
            /\ state' = state
            /\ dom'.error = CalculationError
            /\ dom'.results = dom.results /\ dom'.panels = dom.panels
            /\ ~dom'.loading
            /\ pc' = "idle"
        /\ pc = "display" =>
            /\ state'.currentSection = "results"
            /\ ~dom'.loading
            /\ pc' = "idle"
        /\ (pc # "idle" /\ pc' # "idle") => dom'.loading /\ state' = state ]_vars

\* the calculation threw on a null selectedTool and the handler has returned
C22_Witness ==
    /\ pc = "idle"
    /\ ver = 2
    /\ dom.error = CalculationError
    /\ state.currentSection = "context-questions"
    /\ state.selectedTool = NoTool
    /\ state.contextAnswers # <<>>
    /\ ~dom.loading

(***************************************************************************)
(* C23: a compound rule whose Tool_Type is neither 'Both_Tools' nor the    *)
(* type of the selected tool never applies: it changes no severity, no     *)
(* hasRisk flag and adds no warning.  The code tests whether the lowered   *)
(* Tool_Type occurs inside the tool key, so a part of the type, or the     *)
(* empty string, passes the test.                                          *)
(***************************************************************************)
C23_OtherToolTypeNeverApplies ==
    [][ (pc = "rules" /\ idx <= Len(data.compoundRiskRules)) =>
            LET rule == data.compoundRiskRules[idx]
            IN  rule.Tool_Type \notin {"Both_Tools", toolTypeMap(state.selectedTool)} =>
                    /\ profile'.severity = profile.severity
                    /\ profile'.hasRisk = profile.hasRisk
                    /\ profile'.compoundWarnings = profile.compoundWarnings
                    /\ snap'.applied = snap.applied ]_vars

(***************************************************************************)
(* C24: profile.compoundWarnings holds exactly one entry for each rule     *)
(* that applied and has a non-empty Special_Warning, in table order, each  *)
(* with that rule's Rule_ID, warning and Risk_Combination; a rule that did *)
(* not apply adds none, and when no rule applied the profile has no        *)
(* compoundWarnings and the warnings panel is not rendered.  The warning   *)
(* is pushed inside the try block of applyRule, after the effect.          *)
(***************************************************************************)
WarningOf(rule) ==
    [ruleId |-> rule.Rule_ID, warning |-> rule.Special_Warning,
     riskCombination |-> rule.Risk_Combination]

ExpectedWarnings ==
    LET withWarning == SelectSeq(snap.applied,
                           LAMBDA i : data.compoundRiskRules[i].Special_Warning # "")
    IN  [k \in 1..Len(withWarning) |-> WarningOf(data.compoundRiskRules[withWarning[k]])]

C24_WarningsOfAppliedRules ==
    /\ pc \in {"rules", "explain", "overall", "display"} =>
           profile.compoundWarnings = ExpectedWarnings
    /\ (pc = "idle" /\ dom.results) => dom.panels.warnings = ExpectedWarnings

(***************************************************************************)
(* C25: a tool selection for which no question rows exist leaves           *)
(* currentSection at 'tool-selection' and leaves currentToolQuestions,     *)
(* toolAnswers and contextAnswers unchanged, and shows the 'No questions   *)
(* found' error; it never shows an empty question form.  The callback of   *)
(* the selection runs 300 ms after the click.                              *)
(***************************************************************************)
\* this step is the callback of a selection for which no rows exist
NoRowsCallback ==
    /\ timers # <<>>
    /\ timers' = Tail(timers)
    /\ loadToolQuestions(ver, data, Head(timers)) = <<>>

C25_NoRowsStaysOnToolSelection ==
    [][ NoRowsCallback =>
            /\ state'.currentSection = "tool-selection"
            /\ state'.currentToolQuestions = state.currentToolQuestions
            /\ state'.toolAnswers = state.toolAnswers
            /\ state'.contextAnswers = state.contextAnswers
            /\ dom'.error = "No questions found"
            /\ dom'.toolForm = dom.toolForm ]_vars

(***************************************************************************)
(* C26: when a selected answer flags a category and its per-option         *)
(* severity is missing, the answer counts as LOW; when the severity string *)
(* is not one of the four levels, the category's severity is left          *)
(* unchanged by that answer, while the category is still marked as having  *)
(* a risk (hasRisk true in the second definition, one entry added to risks *)
(* in the first).  Stated for the step that folds the answers of one       *)
(* question.                                                               *)
(***************************************************************************)
\* the positions of the answers of question idx that flag category c
FlaggingAnswers(c) ==
    LET q == state.currentToolQuestions[idx]
        answers == AnswerOf(state.toolAnswers, idx)
    IN  { k \in 1..Len(answers) :
            IF ver = 1 THEN Flagged1(q, answers[k], c) ELSE Flagged2(q, answers[k], c) }

\* the severity cells of those answers
FlaggingCells(c) ==
    { state.currentToolQuestions[idx].Severity[AnswerOf(state.toolAnswers, idx)[k]] :
        k \in FlaggingAnswers(c) }

C26_MissingOrUnknownSeverity ==
    [][ (pc = "fold" /\ idx <= Len(state.currentToolQuestions)) =>
            \A c \in Categories :
                /\ FlaggingAnswers(c) # {} =>
                       IF ver = 1
                       THEN profile'.risks[c] = profile.risks[c] + Cardinality(FlaggingAnswers(c))
                       ELSE profile'.hasRisk[c]
                /\ (FlaggingAnswers(c) # {} /\ FlaggingCells(c) \cap Severity = {}) =>
                       profile'.severity[c] = profile.severity[c]
                /\ (FlaggingAnswers(c) # {} /\ FlaggingCells(c) \subseteq Severity \cup {""}) =>
                       IndexOf(profile'.severity[c]) =
                           SetMax({IndexOf(profile.severity[c])} \cup
                                  {IndexOf(IF s = "" THEN "LOW" ELSE s) : s \in FlaggingCells(c)})
      ]_vars

\* the first answer flags Privacy and has no severity, the second flags Bias
\* with a severity that is no level: both stay at LOW and both have a risk
C26_Witness ==
    /\ FoldDone
    /\ ver = 2
    /\ Len(state.currentToolQuestions) = 2
    /\ LET q1 == state.currentToolQuestions[1]
           q2 == state.currentToolQuestions[2]
           a1 == AnswerOf(state.toolAnswers, 1)[1]
           a2 == AnswerOf(state.toolAnswers, 2)[1]
       IN  /\ Flagged2(q1, a1, "Privacy") /\ ~Flagged2(q1, a1, "Bias")
           /\ q1.Severity[a1] = ""
           /\ Flagged2(q2, a2, "Bias") /\ ~Flagged2(q2, a2, "Privacy")
           /\ q2.Severity[a2] = "SEVERE"
    /\ \A c \in Categories :
          snap.afterFold.severity[c] = "LOW" /\ snap.afterFold.hasRisk[c]

(***************************************************************************)
(* C27: calculateRiskProfile reads but never changes the application state *)
(* or the loaded tables: selectedTool, currentToolQuestions, toolAnswers,  *)
(* contextAnswers and the four tables are the same after the call as       *)
(* before, and two calls on the same state return equal profiles: the      *)
(* profile returned is the one a call on the state after the call returns. *)
(***************************************************************************)
\* the positions inside calculateRiskProfile
InsideCalculation == pc \in {"fold", "context", "rules", "explain", "overall"}

C27_CalculationOnlyReads ==
    [][ /\ InsideCalculation =>
            /\ state' = state
            /\ data' = data
        /\ (InsideCalculation /\ pc' = "display") =>
            profile' = calculateRiskProfile(ver, data', state') ]_vars

\* a call has returned a profile with a risk, an escalation and an explanation
C27_Witness ==
    /\ Returned
    /\ ver = 2
    /\ state.toolAnswers # <<>> /\ state.contextAnswers # <<>>
    /\ snap.applied # <<>>
    /\ profile.activeRisks # <<>>
    /\ profile = calculateRiskProfile(ver, data, state)

====
